---- MODULE Spec2Model ----
(***************************************************************************)
(* Verification model of the supernovas wrapper crate:                     *)
(*   ephem.rs      the process-wide ephemeris registry, its generic lookup *)
(*                 and the three callbacks handed to the numeric engine    *)
(*   positions.rs  Observer, CatalogEntry, Frame and SkyPosition wrappers  *)
(*   time.rs       Timespec                                                *)
(*                                                                         *)
(* Three specifications share the variables:                               *)
(*   Spec      calls into the registry, one whole call per step            *)
(*   SpecConc  threads stepping through provide_ephem / naif_ephem_lookup  *)
(*             statement by statement, interleaved                          *)
(*   SpecWrap  calls into the positions.rs / time.rs wrappers              *)
(***************************************************************************)
EXTENDS Integers, Sequences, FiniteSets, TLC

VARIABLES
    provider,   \* EPHEM_PROVIDER's Option<CalcephBin>: None or the file it was opened from
    poisoned,   \* the Mutex's poison flag (a thread panicked while holding the guard)
    hooks,      \* which of the engine's three provider hooks point at this crate's callbacks
    alive,      \* FALSE once a fault inside an extern "C" callback has aborted the process
    everProvided, \* history: some provide_ephem has returned Ok
    last,       \* record of the most recent whole call (Spec, SpecWrap)
    lock,       \* SpecConc: the thread holding the mutex guard, or NoThread
    th,         \* SpecConc: per thread, its position and locals
    settled,    \* SpecConc, history: the file of the latest provide_ephem that returned Ok
                \* having overlapped no other provide_ephem ("ambiguous" if it overlapped one)
    objs        \* SpecLife: the Observer, Timespec and Frame values of a caller

vars == <<provider, poisoned, hooks, alive, everProvided, last, lock, th, settled,
          objs>>

-----------------------------------------------------------------------------
(* Bounds of the model *)

\* number of threads in SpecConc
NThreads == 2
\* how many Observers, and how many Timespecs, a caller of SpecLife makes
MaxObjs == 2
\* how many Frames a caller of SpecLife makes
MaxFrames == 2
\* how far beyond the length limits the text arguments are tried
MaxOver == 1

-----------------------------------------------------------------------------
(* Result values *)

None == "None"

\* Option<T> of a record: <<>> for None, <<x>> for Some(x)
NoneOf == <<>>
Some(x) == <<x>>

Ok(v) == [kind |-> "Ok", val |-> v, err |-> "", msg |-> ""]
Err(e) == [kind |-> "Err", val |-> <<>>, err |-> e, msg |-> ""]
\* a panic: the call produces no value, the stack unwinds
Panic(m) == [kind |-> "Panic", val |-> <<>>, err |-> "", msg |-> m]

-----------------------------------------------------------------------------
(* f64 quantities.  A quantity is kept exactly as  n / AU^au : an integer    *)
(* numerator and the number of times it has been divided by the constant   *)
(* AU = 149_597_870.700, so that the division is not lost in rounding.     *)

Qty(n) == [n |-> n, au |-> 0]

\* *i /= AU
DivAU(q) == [q EXCEPT !.au = @ + 1]

\* what a caller's output buffer holds before the call
Stale == <<Qty(-1), Qty(-1), Qty(-1)>>
\* a null pointer argument
Null == <<>>

-----------------------------------------------------------------------------
(* The foreign enumerations.  bindgen binds them as newtypes over an       *)
(* integer (build.rs), so a value outside the named constants can be       *)
(* passed: "OTHER" stands for any such value.                              *)

NOVAS_BARYCENTER == "NOVAS_BARYCENTER"
NOVAS_HELIOCENTER == "NOVAS_HELIOCENTER"
Origins == {NOVAS_BARYCENTER, NOVAS_HELIOCENTER, "OTHER"}

PlanetNaif ==
    [NOVAS_SSB |-> 0, NOVAS_MERCURY |-> 199, NOVAS_VENUS |-> 299,
     NOVAS_EARTH |-> 399, NOVAS_MARS |-> 499, NOVAS_JUPITER |-> 599,
     NOVAS_SATURN |-> 699, NOVAS_URANUS |-> 799, NOVAS_NEPTUNE |-> 899,
     NOVAS_PLUTO |-> 999, NOVAS_SUN |-> 10, NOVAS_MOON |-> 301]

\* novas_planet_naif with the Pluto arm copied from Neptune's and not edited
novas_planet_naif_PlutoAsNeptune(planet) ==
    IF planet = "NOVAS_PLUTO" THEN Ok(PlanetNaif["NOVAS_NEPTUNE"])
    ELSE IF planet \in DOMAIN PlanetNaif THEN Ok(PlanetNaif[planet])
    ELSE Panic("unreachable")

\* fn novas_planet_naif: the NAIF id, or unreachable!() for any other value
novas_planet_naif(planet) ==
    IF planet \in DOMAIN PlanetNaif THEN Ok(PlanetNaif[planet])
    ELSE Panic("unreachable")

\* the planets the callbacks are exercised with: every named constant of
\* novas_planet and a value outside them
Planets == DOMAIN PlanetNaif \cup {"OTHER"}

-----------------------------------------------------------------------------
(* The ephemeris files and what CalcephBin computes from them *)

\* files CalcephBin::new opens, and one it cannot open
Sources == {"src1", "src2"}
Files == Sources \cup {"missing"}

\* CalcephBin::new(file)?
CalcephBinNew(file) == IF file \in Sources THEN Ok(file) ELSE Err("Calceph")

\* bodies the files hold
Targets == {0, 10, 301, 399, 899, 999}
\* the Julian days the files cover
Covered == 2451000..2452000

SrcBase(src) == IF src = "src1" THEN 1000 ELSE 2000

\* position (km) and velocity (km/s) of target relative to center in file src
PosKm(src, target, center) ==
    [i \in 1..3 |-> SrcBase(src) + (target - center) + i]
VelKmS(src, target, center) ==
    [i \in 1..3 |-> (SrcBase(src) \div 1000) + i]

\* c.compute_position_units_naif(jd0, time, target, center, pos unit, time unit)
CalcephCompute(src, jd0, time, target, center, posUnit, timeUnit) ==
    IF target \notin Targets \/ center \notin Targets
         \/ jd0 + time \notin Covered
    THEN Err("Calceph")
    ELSE LET p == PosKm(src, target, center)
             v == VelKmS(src, target, center)
             ps == IF posUnit = "Kilometer" THEN 1 ELSE 0
             ts == IF timeUnit = "Day" THEN 86400 ELSE 1
         IN  Ok(<<Qty(p[1] * ps), Qty(p[2] * ps), Qty(p[3] * ps),
                  Qty(v[1] * ts), Qty(v[2] * ts), Qty(v[3] * ts)>>)

-----------------------------------------------------------------------------
(* ephem.rs, one whole call at a time *)

\* match origin { BARYCENTER => 0, HELIOCENTER => 10, _ => unreachable!() }
OriginCenter(origin) ==
    IF origin = NOVAS_BARYCENTER THEN Ok(0)
    ELSE IF origin = NOVAS_HELIOCENTER THEN Ok(10)
    ELSE Panic("unreachable")

\* pv.iter_mut().for_each(|i| *i /= AU)
ToAU(pv) == [i \in 1..6 |-> DivAU(pv[i])]

\* pub fn naif_ephem_lookup.  Gives the result and the poison flag it leaves:
\* a panic raised after lock() poisons the mutex as the guard is dropped.
naif_ephem_lookup(id, jd_tdb_high, jd_tdb_low, origin, slot, psn) ==
    IF psn THEN [res |-> Panic("PoisonError"), poisoned |-> TRUE]
    ELSE LET center == OriginCenter(origin) IN
      IF center.kind = "Panic" THEN [res |-> center, poisoned |-> TRUE]
      ELSE IF slot = None
      THEN [res |-> Err("EphemNotLoaded"), poisoned |-> FALSE]
      ELSE LET c == CalcephCompute(slot, jd_tdb_high, jd_tdb_low, id,
                                   center.val, "Kilometer", "Day")
           IN  IF c.kind = "Err" THEN [res |-> c, poisoned |-> FALSE]
               ELSE [res |-> Ok(ToAU(c.val)), poisoned |-> FALSE]

\* A c_long: lo is the value when it fits an i32; wide says it does not.
LongIds == {[lo |-> 399, wide |-> FALSE], [lo |-> 42, wide |-> FALSE],
            [lo |-> 0, wide |-> TRUE]}

\* id.try_into().expect("Invalid NAIFID")
TryIntoI32(id) == IF id.wide THEN Panic("Invalid NAIFID") ELSE Ok(id.lo)

\* what a callback hands back: the status (or the fault), the buffers and
\* *origin as it leaves them, and the poison flag
CbOut(res, origin, pos, vel, psn) ==
    [res |-> res, origin |-> origin, pos |-> pos, vel |-> vel, poisoned |-> psn]

\* if !p.is_null() { slice.clone_from_slice(&pv[a..b]) }
WriteIfNonNull(buf, part) == IF buf = Null THEN Null ELSE part

\* unsafe extern "C" fn ceph_ephem_provider.  origin is Null or <<what *origin holds>>.
ceph_ephem_provider(id, jd_tdb_high, jd_tdb_low, origin, pos, vel, slot, psn) ==
    IF origin = Null THEN CbOut(Ok(-1), origin, pos, vel, psn)
    ELSE LET id32 == TryIntoI32(id) IN
      IF id32.kind = "Panic"
      THEN CbOut(id32, <<NOVAS_BARYCENTER>>, pos, vel, psn)
      ELSE LET r == naif_ephem_lookup(id32.val, jd_tdb_high, jd_tdb_low,
                                      NOVAS_BARYCENTER, slot, psn)
           IN  IF r.res.kind = "Ok"
               THEN CbOut(Ok(0), <<NOVAS_BARYCENTER>>,
                          WriteIfNonNull(pos, SubSeq(r.res.val, 1, 3)),
                          WriteIfNonNull(vel, SubSeq(r.res.val, 4, 6)),
                          r.poisoned)
               ELSE IF r.res.kind = "Err"
               THEN CbOut(Ok(-1), <<NOVAS_BARYCENTER>>, pos, vel, r.poisoned)
               ELSE CbOut(r.res, <<NOVAS_BARYCENTER>>, pos, vel, r.poisoned)

\* PlanetLookup with the two halves of the result written to the wrong buffers
PlanetLookup_Swapped(body, jd_high, jd_low, origin, pos, vel, slot, psn) ==
    LET naif == novas_planet_naif(body) IN
    IF naif.kind = "Panic" THEN CbOut(naif, Null, pos, vel, psn)
    ELSE LET r == naif_ephem_lookup(naif.val, jd_high, jd_low, origin, slot, psn)
         IN  IF r.res.kind = "Ok"
             THEN CbOut(Ok(0), Null, SubSeq(r.res.val, 4, 6),
                        SubSeq(r.res.val, 1, 3), r.poisoned)
             ELSE IF r.res.kind = "Err"
             THEN CbOut(Ok(3), Null, pos, vel, r.poisoned)
             ELSE CbOut(r.res, Null, pos, vel, r.poisoned)

\* the body shared by the two planet callbacks once their pointers are checked
\* (origin is passed by value: there is no *origin to write)
PlanetLookup(body, jd_high, jd_low, origin, pos, vel, slot, psn) ==
    LET naif == novas_planet_naif(body) IN
    IF naif.kind = "Panic" THEN CbOut(naif, Null, pos, vel, psn)
    ELSE LET r == naif_ephem_lookup(naif.val, jd_high, jd_low, origin, slot, psn)
         IN  IF r.res.kind = "Ok"
             THEN CbOut(Ok(0), Null, SubSeq(r.res.val, 1, 3),
                        SubSeq(r.res.val, 4, 6), r.poisoned)
             ELSE IF r.res.kind = "Err"
             THEN CbOut(Ok(3), Null, pos, vel, r.poisoned)
             ELSE CbOut(r.res, Null, pos, vel, r.poisoned)

\* unsafe extern "C" fn ceph_planet_provider_hp.  jd_tdb is Null or <<high, low>>.
ceph_planet_provider_hp(jd_tdb, body, origin, pos, vel, slot, psn) ==
    IF jd_tdb = Null \/ pos = Null \/ vel = Null
    THEN CbOut(Ok(3), Null, pos, vel, psn)
    ELSE PlanetLookup(body, jd_tdb[1], jd_tdb[2], origin, pos, vel, slot, psn)

\* unsafe extern "C" fn ceph_planet_provider
ceph_planet_provider(jd_tdb, body, origin, pos, vel, slot, psn) ==
    IF pos = Null \/ vel = Null
    THEN CbOut(Ok(3), Null, pos, vel, psn)
    ELSE PlanetLookup(body, jd_tdb, 0, origin, pos, vel, slot, psn)

\* pub fn provide_ephem: what it returns and the slot, hooks and poison flag
\* it leaves
provide_ephem(file, slot, hk, psn) ==
    LET ceph == CalcephBinNew(file) IN
    IF ceph.kind = "Err"
    THEN [res |-> ceph, provider |-> slot, hooks |-> hk, poisoned |-> psn]
    ELSE IF psn
    THEN [res |-> Panic("PoisonError"), provider |-> slot, hooks |-> hk,
          poisoned |-> TRUE]
    ELSE [res |-> Ok(<<>>), provider |-> ceph.val,
          hooks |-> {"ephem", "planet", "planet_hp"}, poisoned |-> FALSE]

-----------------------------------------------------------------------------
(* Arguments the calls are exercised with *)

JdHighs == {2451545, 2460000}
JdLows == {0}
NaifIds == {399, 42}
Bufs == {Null, Stale}

NoThread == 0
Threads == 1..NThreads

\* a thread that is in no call and holds no result
IdleThread ==
    [pc |-> "idle", op |-> "none", file |-> None, id |-> 0,
     origin |-> NOVAS_BARYCENTER, pos |-> Null, vel |-> Null, res |-> Panic(""),
     cand |-> {}, expect |-> None, alone |-> TRUE]

NoCall == [op |-> "none"]

\* a caller that has made no Observer, Timespec or Frame yet
NoObjs == [obs |-> <<>>, time |-> <<>>, frame |-> <<>>, used |-> <<>>]

Init ==
    /\ provider = None
    /\ poisoned = FALSE
    /\ hooks = {}
    /\ alive = TRUE
    /\ everProvided = FALSE
    /\ last = NoCall
    /\ lock = NoThread
    /\ th = [t \in Threads |-> IdleThread]
    /\ settled = None
    /\ objs = NoObjs

-----------------------------------------------------------------------------
(* Spec: whole calls into the registry.  The three callbacks are private to *)
(* ephem.rs; the engine reaches one only once provide_ephem has registered  *)
(* it.  A panic inside an extern "C" callback cannot unwind into the engine *)
(* in a defined way: the process aborts, or the unwinding goes on.          *)

Before == [slot |-> provider, psn |-> poisoned, provided |-> everProvided]

Call(op, args, res, origin, pos, vel) ==
    [op |-> op, args |-> args, res |-> res, origin |-> origin, pos |-> pos,
     vel |-> vel, before |-> Before]

ProvideEphem ==
    /\ alive
    /\ \E file \in Files :
         LET r == provide_ephem(file, provider, hooks, poisoned) IN
         /\ provider' = r.provider
         /\ hooks' = r.hooks
         /\ poisoned' = r.poisoned
         /\ everProvided' = (everProvided \/ r.res.kind = "Ok")
         /\ last' = Call("provide_ephem", [file |-> file], r.res, Null, Null, Null)
    /\ UNCHANGED <<objs, alive, lock, th, settled>>

NaifEphemLookup ==
    /\ alive
    /\ \E id \in NaifIds, jh \in JdHighs, jl \in JdLows, origin \in Origins :
         LET r == naif_ephem_lookup(id, jh, jl, origin, provider, poisoned) IN
         /\ poisoned' = r.poisoned
         /\ last' = Call("naif_ephem_lookup",
                         [id |-> id, jd_high |-> jh, jd_low |-> jl, origin |-> origin],
                         r.res, Null, Null, Null)
    /\ UNCHANGED <<objs, provider, hooks, alive, everProvided, lock, th, settled>>

\* the engine invoking a registered callback, whose outcome is r
Callback(op, args, r) ==
    /\ poisoned' = r.poisoned
    /\ last' = Call(op, args, r.res, r.origin, r.pos, r.vel)
    /\ IF r.res.kind = "Panic" THEN alive' \in BOOLEAN ELSE alive' = alive
    /\ UNCHANGED <<objs, provider, hooks, everProvided, lock, th, settled>>

CephEphemProvider ==
    /\ alive /\ "ephem" \in hooks
    /\ \E id \in LongIds, jh \in JdHighs, jl \in JdLows,
          origin \in {Null, <<NOVAS_HELIOCENTER>>}, pos \in Bufs, vel \in Bufs :
         Callback("ceph_ephem_provider",
                  [id |-> id, jd_high |-> jh, jd_low |-> jl, origin |-> origin,
                   pos |-> pos, vel |-> vel],
                  ceph_ephem_provider(id, jh, jl, origin, pos, vel, provider, poisoned))

CephPlanetProviderHp ==
    /\ alive /\ "planet_hp" \in hooks
    /\ \E jd \in {Null} \cup (JdHighs \X JdLows), body \in Planets,
          origin \in Origins, pos \in Bufs, vel \in Bufs :
         Callback("ceph_planet_provider_hp",
                  [jd_tdb |-> jd, body |-> body, origin |-> origin,
                   pos |-> pos, vel |-> vel],
                  ceph_planet_provider_hp(jd, body, origin, pos, vel, provider, poisoned))

CephPlanetProvider ==
    /\ alive /\ "planet" \in hooks
    /\ \E jd \in JdHighs, body \in Planets, origin \in Origins,
          pos \in Bufs, vel \in Bufs :
         Callback("ceph_planet_provider",
                  [jd_tdb |-> jd, body |-> body, origin |-> origin,
                   pos |-> pos, vel |-> vel],
                  ceph_planet_provider(jd, body, origin, pos, vel, provider, poisoned))

Next ==
    \/ ProvideEphem
    \/ NaifEphemLookup
    \/ CephEphemProvider
    \/ CephPlanetProviderHp
    \/ CephPlanetProvider

Spec == Init /\ [][Next]_vars

-----------------------------------------------------------------------------
(* SpecConc: threads inside provide_ephem and naif_ephem_lookup, one        *)
(* statement per step.  The lookup's call into the provider is not atomic  *)
(* by itself: it reads the slot's provider for the position and again for  *)
(* the velocity.  A callback runs these same steps through its call of     *)
(* naif_ephem_lookup.                                                      *)

\* the date the threads look up
ConcJd == [high |-> 2451545, low |-> 0]

\* the lookups the threads make: one the provider answers, one for a body
\* it does not hold, one with an origin outside the enumeration
ConcLookups ==
    {[id |-> 399, origin |-> NOVAS_BARYCENTER],
     [id |-> 42, origin |-> NOVAS_BARYCENTER],
     [id |-> 399, origin |-> "OTHER"]}

InProvide(t) == th[t].op = "provide_ephem" /\ th[t].pc \notin {"idle", "done"}
InLookup(t) == th[t].op = "naif_ephem_lookup" /\ th[t].pc \notin {"idle", "done"}
CanCall(t) == th[t].pc \in {"idle", "done"}

\* a lock() that excludes nobody
CanLock_NoExclusion(t) == TRUE

\* EPHEM_PROVIDER.lock(): blocks while another thread holds the guard
CanLock(t) == lock = NoThread

\* the call returns res; its locals are gone.  What a lookup that returns
\* data was asked, and by whom it may have been answered, is kept as history.
Done(t, res) ==
    IF th[t].op = "naif_ephem_lookup" /\ res.kind = "Ok"
    THEN [th[t] EXCEPT !.pc = "done", !.res = res, !.pos = Null, !.vel = Null]
    ELSE [IdleThread EXCEPT !.pc = "done", !.op = th[t].op, !.res = res]

\* provide_ephem(file) is called.  From here on this provide overlaps every
\* provide and every lookup in flight.
P_Call(t) ==
    /\ CanCall(t)
    /\ \E file \in Files :
         th' = [u \in Threads |->
                 IF u = t
                 THEN [IdleThread EXCEPT !.pc = "p_new", !.op = "provide_ephem",
                          !.file = file,
                          !.alone = (\A v \in Threads \ {t} : ~InProvide(v))]
                 ELSE IF InProvide(u) THEN [th[u] EXCEPT !.alone = FALSE]
                 ELSE IF InLookup(u) THEN [th[u] EXCEPT !.expect = None]
                 ELSE th[u]]
    /\ UNCHANGED <<objs, provider, poisoned, hooks, alive, everProvided, last, lock,
                   settled>>

\* P_New that empties the slot when the file does not open
P_New_ClearsSlot(t) ==
    /\ th[t].pc = "p_new"
    /\ LET ceph == CalcephBinNew(th[t].file) IN
       /\ th' = [th EXCEPT ![t] = IF ceph.kind = "Err" THEN Done(t, ceph)
                                  ELSE [th[t] EXCEPT !.pc = "p_lock"]]
       /\ provider' = IF ceph.kind = "Err" THEN None ELSE provider
    /\ UNCHANGED <<objs, poisoned, hooks, alive, everProvided, last, lock,
                   settled>>

\* let ceph = CalcephBin::new(file)?;
P_New(t) ==
    /\ th[t].pc = "p_new"
    /\ LET ceph == CalcephBinNew(th[t].file) IN
       th' = [th EXCEPT ![t] = IF ceph.kind = "Err" THEN Done(t, ceph)
                               ELSE [th[t] EXCEPT !.pc = "p_lock"]]
    /\ UNCHANGED <<objs, provider, poisoned, hooks, alive, everProvided, last, lock,
                   settled>>

\* let mut provider = EPHEM_PROVIDER.lock().unwrap();
P_Lock(t) ==
    /\ th[t].pc = "p_lock"
    /\ CanLock(t)
    /\ IF poisoned
       THEN /\ th' = [th EXCEPT ![t] = Done(t, Panic("PoisonError"))]
            /\ lock' = lock
       ELSE /\ th' = [th EXCEPT ![t].pc = "p_store"]
            /\ lock' = t
    /\ UNCHANGED <<objs, provider, poisoned, hooks, alive, everProvided, last,
                   settled>>

\* *provider = Some(ceph);  Every lookup in flight may now be answered by it.
P_Store(t) ==
    /\ th[t].pc = "p_store"
    /\ provider' = th[t].file
    /\ th' = [u \in Threads |->
                IF u = t THEN [th[u] EXCEPT !.pc = "p_attach"]
                ELSE IF InLookup(u)
                THEN [th[u] EXCEPT !.cand = @ \cup {th[t].file}]
                ELSE th[u]]
    /\ UNCHANGED <<objs, poisoned, hooks, alive, everProvided, last, lock, settled>>

\* set_ephem_provider(..); set_planet_provider(..); set_planet_provider_hp(..);
P_Attach(t) ==
    /\ th[t].pc = "p_attach"
    /\ hooks' = {"ephem", "planet", "planet_hp"}
    /\ th' = [th EXCEPT ![t].pc = "p_ret"]
    /\ UNCHANGED <<objs, provider, poisoned, alive, everProvided, last, lock, settled>>

\* Ok(())  and the guard is dropped
P_Ret(t) ==
    /\ th[t].pc = "p_ret"
    /\ lock' = NoThread
    /\ everProvided' = TRUE
    /\ settled' = IF th[t].alone THEN th[t].file ELSE "ambiguous"
    /\ th' = [th EXCEPT ![t] = Done(t, Ok(<<>>))]
    /\ UNCHANGED <<objs, provider, poisoned, hooks, alive, last>>

\* naif_ephem_lookup(id, jd, 0, origin) is called.  expect is the provider
\* that must answer it if no provide_ephem is in flight now or later on.
L_Call(t) ==
    /\ CanCall(t)
    /\ \E a \in ConcLookups :
         th' = [th EXCEPT ![t] =
                 [IdleThread EXCEPT !.pc = "l_lock", !.op = "naif_ephem_lookup",
                     !.id = a.id, !.origin = a.origin, !.cand = {provider},
                     !.expect = IF (\A v \in Threads : ~InProvide(v))
                                     /\ settled \in Sources
                                THEN settled ELSE None]]
    /\ UNCHANGED <<objs, provider, poisoned, hooks, alive, everProvided, last, lock,
                   settled>>

\* let mut ceph = EPHEM_PROVIDER.lock().unwrap();
L_Lock(t) ==
    /\ th[t].pc = "l_lock"
    /\ CanLock(t)
    /\ IF poisoned
       THEN /\ th' = [th EXCEPT ![t] = Done(t, Panic("PoisonError"))]
            /\ lock' = lock
       ELSE /\ th' = [th EXCEPT ![t].pc = "l_origin"]
            /\ lock' = t
    /\ UNCHANGED <<objs, provider, poisoned, hooks, alive, everProvided, last,
                   settled>>

\* let center = match origin { .. _ => unreachable!() };  The panic drops the
\* guard while unwinding, which poisons the mutex.
L_Origin(t) ==
    /\ th[t].pc = "l_origin"
    /\ LET center == OriginCenter(th[t].origin) IN
       IF center.kind = "Panic"
       THEN /\ th' = [th EXCEPT ![t] = Done(t, center)]
            /\ poisoned' = TRUE
            /\ lock' = NoThread
       ELSE /\ th' = [th EXCEPT ![t].pc = "l_slot"]
            /\ UNCHANGED <<poisoned, lock>>
    /\ UNCHANGED <<objs, provider, hooks, alive, everProvided, last, settled>>

\* what the provider now in the slot computes for thread t's lookup
SlotCompute(t) ==
    CalcephCompute(provider, ConcJd.high, ConcJd.low, th[t].id,
                   OriginCenter(th[t].origin).val, "Kilometer", "Day")

\* L_Slot whose early return for an empty slot leaves the guard behind
L_Slot_GuardKept(t) ==
    /\ th[t].pc = "l_slot"
    /\ IF provider = None
       THEN /\ th' = [th EXCEPT ![t] = Done(t, Err("EphemNotLoaded"))]
            /\ lock' = lock
       ELSE LET c == SlotCompute(t) IN
            IF c.kind = "Err"
            THEN /\ th' = [th EXCEPT ![t] = Done(t, c)]
                 /\ lock' = NoThread
            ELSE /\ th' = [th EXCEPT ![t].pc = "l_vel",
                                      ![t].pos = SubSeq(c.val, 1, 3)]
                 /\ lock' = lock
    /\ UNCHANGED <<objs, provider, poisoned, hooks, alive, everProvided, last,
                   settled>>

\* match &mut *ceph { None => return Err(EphemNotLoaded), Some(c) => c.compute..(..)? }
\* up to the position half of the computation
L_Slot(t) ==
    /\ th[t].pc = "l_slot"
    /\ IF provider = None
       THEN /\ th' = [th EXCEPT ![t] = Done(t, Err("EphemNotLoaded"))]
            /\ lock' = NoThread
       ELSE LET c == SlotCompute(t) IN
            IF c.kind = "Err"
            THEN /\ th' = [th EXCEPT ![t] = Done(t, c)]
                 /\ lock' = NoThread
            ELSE /\ th' = [th EXCEPT ![t].pc = "l_vel",
                                      ![t].pos = SubSeq(c.val, 1, 3)]
                 /\ lock' = lock
    /\ UNCHANGED <<objs, provider, poisoned, hooks, alive, everProvided, last,
                   settled>>

\* the velocity half of the computation
L_Vel(t) ==
    /\ th[t].pc = "l_vel"
    /\ th' = [th EXCEPT ![t].pc = "l_ret",
                        ![t].vel = SubSeq(SlotCompute(t).val, 4, 6)]
    /\ UNCHANGED <<objs, provider, poisoned, hooks, alive, everProvided, last, lock,
                   settled>>

\* pv.iter_mut().for_each(|i| *i /= AU); Ok(pv)  and the guard is dropped
L_Ret(t) ==
    /\ th[t].pc = "l_ret"
    /\ th' = [th EXCEPT ![t] = Done(t, Ok(ToAU(th[t].pos \o th[t].vel)))]
    /\ lock' = NoThread
    /\ UNCHANGED <<objs, provider, poisoned, hooks, alive, everProvided, last,
                   settled>>

NextConc ==
    \E t \in Threads :
        \/ P_Call(t) \/ P_New(t) \/ P_Lock(t) \/ P_Store(t) \/ P_Attach(t) \/ P_Ret(t)
        \/ L_Call(t) \/ L_Lock(t) \/ L_Origin(t) \/ L_Slot(t) \/ L_Vel(t) \/ L_Ret(t)

SpecConc == Init /\ [][NextConc]_vars

\* Scheduling: a thread inside a call goes on running (its steps are weakly
\* fair, the provider's computation and the opening of the file return), and
\* a thread waiting in lock() gets the mutex if it is free again and again.
\* Nothing makes a thread start a call.
Running(t) ==
    \/ P_New(t) \/ P_Store(t) \/ P_Attach(t) \/ P_Ret(t)
    \/ L_Origin(t) \/ L_Slot(t) \/ L_Vel(t) \/ L_Ret(t)

Locking(t) == P_Lock(t) \/ L_Lock(t)

SpecConcFair ==
    /\ SpecConc
    /\ \A t \in Threads : WF_vars(Running(t)) /\ SF_vars(Locking(t))

\* what the whole lookup of thread t returns when provider src answers it
AnswerOf(t, src) ==
    naif_ephem_lookup(th[t].id, ConcJd.high, ConcJd.low, th[t].origin, src, FALSE).res

GotData(t) ==
    th[t].op = "naif_ephem_lookup" /\ th[t].pc = "done" /\ th[t].res.kind = "Ok"

\* C1: every lookup that returns data returns, whole, what one provider
\* computes: the one in the slot when the lookup was called or one that a
\* provide_ephem overlapping the lookup stored; and a lookup called after a
\* provide_ephem has returned, with no other provide_ephem overlapping either,
\* returns what that provide's file computes.
C1_OneProviderAnswers ==
    \A t \in Threads :
      GotData(t) =>
        /\ \E src \in th[t].cand \ {None} : th[t].res = AnswerOf(t, src)
        /\ th[t].expect # None => th[t].res = AnswerOf(t, th[t].expect)

\* a lookup returned src2's data although src1 was in the slot when it was
\* called: the provide_ephem("src2") it overlapped answered it
C1_Witness ==
    \E t \in Threads :
      /\ GotData(t)
      /\ th[t].cand = {"src1", "src2"}
      /\ th[t].res = AnswerOf(t, "src2")

\* a lookup called after provide_ephem("src2") had replaced src1 and returned
C1_WitnessAfter ==
    \E t \in Threads :
      GotData(t) /\ th[t].expect = "src2" /\ th[t].res = AnswerOf(t, "src2")

-----------------------------------------------------------------------------
(* positions.rs and time.rs.  The numeric engine is foreign code: each call *)
(* of it hands back a status and, when the status is zero, has filled the  *)
(* output record.  Where the source states when a call can fail (a null    *)
(* output, an over-long text) the status follows from the arguments;       *)
(* elsewhere the engine decides, and the status is an input of the step.   *)

\* SIZE_OF_OBJ_NAME, SIZE_OF_CAT_NAME: the engine's limits on the two texts
SIZE_OF_OBJ_NAME == 50
SIZE_OF_CAT_NAME == 6

\* A &str: its length in bytes, whether a NUL byte is among them, and a tag
\* that tells texts of the same length apart.
Str(len, nul, tag) == [len |-> len, nul |-> nul, tag |-> tag]

TextsOf(lens, tags) ==
    {Str(0, FALSE, "")} \cup
    {Str(l, n, g) : l \in lens \ {0}, n \in BOOLEAN, g \in tags}

Names ==
    TextsOf((SIZE_OF_OBJ_NAME - 1)..(SIZE_OF_OBJ_NAME + MaxOver), {"Vega"})
CatalogCodes ==
    TextsOf((SIZE_OF_CAT_NAME - 1)..(SIZE_OF_CAT_NAME + MaxOver), {"HIP", "FK6"})

\* CString::new(s): fails on an interior NUL, else the terminated copy
CStringNew(str) == IF str.nul THEN Err("NulError") ELSE Ok(str)

\* statuses the engine reports
EngineStatuses == {-1, 0, 1}

\* an output record the engine did not fill, read by assume_init(): its
\* content g is whatever the memory held
Unfilled(g) == [filled |-> FALSE, g |-> g]
Leftovers == {0, 1}

Err_LowerLevel(code) == [kind |-> "Err", val |-> code, err |-> "LowerLevel", msg |-> ""]

\* one call of the engine: the function, what it was passed, what it reported
ECall(fn, args, status) == [fn |-> fn, args |-> args, status |-> status]

\* impl From<Accuracy> for novas_accuracy
novas_accuracy(value) ==
    IF value = "Full" THEN "NOVAS_FULL_ACCURACY" ELSE "NOVAS_REDUCED_ACCURACY"

\* impl From<ReferenceSystem> for novas_reference_system
novas_reference_system(value) ==
    CASE value = "GCRS" -> "NOVAS_GCRS" [] value = "TOD" -> "NOVAS_TOD"
      [] value = "CIRS" -> "NOVAS_CIRS" [] value = "ICRS" -> "NOVAS_ICRS"
      [] value = "J2000" -> "NOVAS_J2000" [] value = "MOD" -> "NOVAS_MOD"

\* impl From<Transformation> for novas_transform_type
novas_transform_type(value) ==
    CASE value.kind = "ProperMotion" -> "PROPER_MOTION"
      [] value.kind = "Precession" -> "PRECESSION"
      [] value.kind = "ChangeEpoch" -> "CHANGE_EPOCH"
      [] value.kind = "J2000ToICRS" -> "CHANGE_J2000_TO_ICRS"
      [] value.kind = "ICRSToJ2000" -> "CHANGE_ICRS_TO_J2000"

(* Observer *)

\* Observer::new_on_surface: make_observer_on_surface fails on a null output only
ObserverNewOnSurface(lat, lon, elev, temp, pressure) ==
    [location |-> "Surface",
     inner |-> [filled |-> TRUE, where |-> "ON_EARTH",
                on_surf |-> <<lat, lon, elev, temp, pressure>>, sc |-> <<>>]]

\* Observer::new_in_space
ObserverNewInSpace(pos, vel) ==
    [location |-> "Space",
     inner |-> [filled |-> TRUE, where |-> "IN_EARTH_ORBIT",
                on_surf |-> <<>>, sc |-> <<pos, vel>>]]

\* Observer::new_at_geocenter
ObserverNewAtGeocenter ==
    [location |-> "Geocenter",
     inner |-> [filled |-> TRUE, where |-> "AT_GEOCENTER",
                on_surf |-> <<>>, sc |-> <<>>]]

Observers ==
    {ObserverNewOnSurface(37, -118, 1222, 10, 1010),
     ObserverNewInSpace(<<7000, 0, 0>>, <<0, 7, 0>>),
     ObserverNewAtGeocenter}

(* Timespec *)

\* novas_set_split_time, when it reports success
SetSplitTime(timescale, ijd, fjd, leap, dut1) ==
    [filled |-> TRUE, scale |-> timescale, ijd |-> ijd, fjd |-> fjd,
     leap |-> leap, dut1 |-> dut1]

\* Timespec::from_split_time: the status is dropped, the record is returned
TimespecFromSplitTime(timescale, ijd, fjd, leap, dut1, status, g) ==
    IF status = 0 THEN SetSplitTime(timescale, ijd, fjd, leap, dut1)
    ELSE Unfilled(g)

Timespecs == {SetSplitTime("TT", 2460570, 0, 37, 0)}

(* hifitime.  A Duration is kept as whole days and milliseconds of the day,  *)
(* an f64 as the fraction n / per.                                          *)

Dur(d, ms) == [d |-> d, ms |-> ms]
Real(n, per) == [n |-> n, per |-> per]

\* Epoch::to_jde_tt_duration: the epoch (kept as its TAI Julian date) in TT,
\* which is TAI + 32.184 s
ToJdeTtDuration(epoch) ==
    LET ms == epoch.ms + 32184
    IN  Dur(epoch.d + (ms \div 86400000), ms % 86400000)

\* Duration::decompose: (sign, days, hours, minutes, seconds, ms, us, ns)
Decompose(dur) ==
    <<1, dur.d, dur.ms \div 3600000, (dur.ms \div 60000) % 60,
      (dur.ms \div 1000) % 60, dur.ms % 1000, 0, 0>>

\* Duration::compose(sign, days, hours, minutes, seconds, ms, us, ns), sign >= 0
Compose(sign, days, hours, minutes, seconds, ms, us, ns) ==
    Dur(days, hours * 3600000 + minutes * 60000 + seconds * 1000 + ms)

\* Duration::to_seconds: the duration as a number of seconds
ToSeconds(dur) == Real(dur.d * 86400000 + dur.ms, 1000)

\* impl From<(Epoch, Ut1Provider)> for Timespec: what it passes to
\* Timespec::from_split_time
SplitOfEpoch(epoch, leap, dut1) ==
    LET tt == ToJdeTtDuration(epoch)
        p == Decompose(tt)
        ijd_tt == p[2]
        tt_remainder == Compose(1, 0, p[3], p[4], p[5], p[6], p[7], p[8])
        fjd_tt == ToSeconds(tt_remainder)
    IN  [timescale |-> "TT", ijd |-> ijd_tt, fjd |-> fjd_tt, leap |-> leap,
         dut1 |-> dut1]

\* the epochs converted: 2024-09-17T06:12:18 UTC (TAI is 37 s ahead), noon
\* TAI of that Julian day, and the instant 32.184 s before the next TT day
Epochs ==
    {Dur(2460570, 65538000 + 37000), Dur(2460570, 0),
     Dur(2460570, 86400000 - 32184)}

(* CatalogEntry *)

\* make_cat_entry: copies the two texts and the numbers into the record; it
\* refuses a text that does not fit the record's fixed-size field
make_cat_entry(name, catalog, num, ra, dec) ==
    IF name.len > SIZE_OF_OBJ_NAME \/ catalog.len > SIZE_OF_CAT_NAME
    THEN [status |-> 1, out |-> Unfilled(0)]
    ELSE [status |-> 0,
          out |-> [filled |-> TRUE, starname |-> name, catalog |-> catalog,
                   starnumber |-> num, ra |-> ra, dec |-> dec, moved |-> <<>>]]

\* CatalogEntry::new with the length test off by one
CatalogEntryNew_OffByOne(name, catalog, num, ra, dec) ==
    IF name.len >= SIZE_OF_OBJ_NAME THEN Err("InvalidString")
    ELSE IF catalog.len >= SIZE_OF_CAT_NAME THEN Err("InvalidString")
    ELSE IF CStringNew(catalog).kind = "Err" THEN Err("InvalidString")
    ELSE IF CStringNew(name).kind = "Err" THEN Err("InvalidString")
    ELSE Ok(make_cat_entry(CStringNew(name).val, CStringNew(catalog).val,
                           num, ra, dec).out)

\* CatalogEntry::new (the proper motions, parallax and radial velocity are
\* passed through like ra and dec)
CatalogEntryNew(name, catalog, num, ra, dec) ==
    IF name.len > SIZE_OF_OBJ_NAME THEN Err("InvalidString")
    ELSE IF catalog.len > SIZE_OF_CAT_NAME THEN Err("InvalidString")
    ELSE IF CStringNew(catalog).kind = "Err" THEN Err("InvalidString")
    ELSE IF CStringNew(name).kind = "Err" THEN Err("InvalidString")
    ELSE Ok(make_cat_entry(CStringNew(name).val, CStringNew(catalog).val,
                           num, ra, dec).out)

\* let (jd_tt_in, jd_tt_out) = match transformation { .. }
TransformDates(transformation) ==
    IF transformation.kind \in {"ProperMotion", "Precession", "ChangeEpoch"}
    THEN <<transformation.jd_tt_in, transformation.jd_tt_out>>
    ELSE <<0, 0>>

\* the out_id of CatalogEntry::transform without its length test
OutId_NoLengthTest(new_cat) ==
    IF new_cat = NoneOf THEN Ok(Null)
    ELSE IF CStringNew(new_cat[1]).kind = "Err" THEN Err("InvalidString")
    ELSE Ok(<<CStringNew(new_cat[1]).val>>)

\* "Deal with catalog name (if it exists)": Err(InvalidString), or the
\* pointer out_id: Null, or <<the C string it was taken from>>
OutId(new_cat) ==
    IF new_cat = NoneOf THEN Ok(Null)
    ELSE IF new_cat[1].len > SIZE_OF_CAT_NAME THEN Err("InvalidString")
    ELSE IF CStringNew(new_cat[1]).kind = "Err" THEN Err("InvalidString")
    ELSE Ok(<<CStringNew(new_cat[1]).val>>)

\* new_cat_c is dropped at the end of the block that takes out_id from it,
\* before transform_cat is called: what the engine reads at out_id is the
\* text still lying there, or whatever the freed memory holds by then
ReadsAt(out_id) ==
    IF out_id = Null THEN {Null}
    ELSE {out_id, <<Str(0, FALSE, "")>>, <<Str(1, FALSE, "?")>>}

\* the storage out_id points to when transform_cat is called: new_cat_c, whose
\* buffer it is, is a local of the else block and is dropped where the block
\* ends, before the call
OutIdStorage(out_id) == IF out_id = Null THEN "null" ELSE "freed"

\* transform_cat when it reports success: the entry moved as asked, with the
\* catalog code read at out_id, or the old one for a null out_id
transform_cat(option, jd_tt_in, in, jd_tt_out, read) ==
    [in EXCEPT !.moved = <<option, jd_tt_in, jd_tt_out>>,
               !.catalog = IF read = Null THEN in.catalog ELSE read[1]]

Transformations ==
    {[kind |-> k, jd_tt_in |-> 2451545, jd_tt_out |-> o] :
        k \in {"ProperMotion", "Precession", "ChangeEpoch"},
        o \in {2451545, 2460000}}
    \cup {[kind |-> k, jd_tt_in |-> 0, jd_tt_out |-> 0] :
            k \in {"J2000ToICRS", "ICRSToJ2000"}}

(* Frame and SkyPosition *)

\* novas_make_frame, when it reports success
MakeFrame(acc, obs, time, dx, dy) ==
    [filled |-> TRUE, accuracy |-> acc, observer |-> obs, time |-> time,
     dx |-> dx, dy |-> dy]

\* Frame::new whose status test lets the negative statuses through
FrameNew_PositiveOnly(acc, obs, time, dx, dy, ret) ==
    IF ret > 0 THEN Err_LowerLevel(ret)
    ELSE Ok(MakeFrame(novas_accuracy(acc), obs.inner, time, dx, dy))

\* Frame::new, the engine reporting ret
FrameNew(acc, obs, time, dx, dy, ret) ==
    IF ret # 0 THEN Err_LowerLevel(ret)
    ELSE Ok(MakeFrame(novas_accuracy(acc), obs.inner, time, dx, dy))

\* novas_sky_pos / place_star, when they report success
SkyPos(cat, sys) == [filled |-> TRUE, ra |-> cat.ra, dec |-> cat.dec, sys |-> sys]

\* SkyPosition::try_from_frame_entry: make_cat_object reports st_obj (dropped),
\* novas_sky_pos reports ret
SkyPositionTryFromFrameEntry(ent, frame, ref_sys, st_obj, ret) ==
    IF ret # 0 THEN Panic("assertion failed: ret == 0")
    ELSE Ok(SkyPos(ent, novas_reference_system(ref_sys)))

\* SkyPosition::place, place_star reporting ret
SkyPositionPlace(jd_tt, ent, obs, ut1_to_tt, ref_sys, acc, ret) ==
    IF ret # 0 THEN Panic("assertion failed: ret == 0")
    ELSE Ok(SkyPos(ent, novas_reference_system(ref_sys)))

\* Frame::apparent_local_coordinates: novas_app_to_hor reports st_hor (dropped)
FrameApparentLocalCoordinates(frame, ref_sys, ent, st_obj, ret, st_hor, g) ==
    LET sky_pos == SkyPositionTryFromFrameEntry(ent, frame, ref_sys, st_obj, ret) IN
    IF sky_pos.kind # "Ok" THEN sky_pos
    ELSE IF st_hor = 0
    THEN Ok([filled |-> TRUE, az |-> sky_pos.val.ra, el |-> sky_pos.val.dec])
    ELSE Ok(Unfilled(g))

RefSystems == {"CIRS", "ICRS"}

-----------------------------------------------------------------------------
(* simbad.rs.  A text is the sequence of its characters. *)

DigitVal ==
    ("0" :> 0) @@ ("1" :> 1) @@ ("2" :> 2) @@ ("3" :> 3) @@ ("4" :> 4) @@
    ("5" :> 5) @@ ("6" :> 6) @@ ("7" :> 7) @@ ("8" :> 8) @@ ("9" :> 9)

IsDigits(str) == \A i \in DOMAIN str : str[i] \in DOMAIN DigitVal

RECURSIVE NatOf(_)
NatOf(str) ==
    IF str = <<>> THEN 0
    ELSE NatOf(SubSeq(str, 1, Len(str) - 1)) * 10 + DigitVal[str[Len(str)]]

RECURSIVE Pow10(_)
Pow10(k) == IF k = 0 THEN 1 ELSE 10 * Pow10(k - 1)

\* str::starts_with
StartsWith(str, pre) ==
    Len(str) >= Len(pre) /\ SubSeq(str, 1, Len(pre)) = pre

\* str::strip_prefix: Some(the rest) or None
StripPrefix(str, pre) ==
    IF StartsWith(str, pre) THEN Some(SubSeq(str, Len(pre) + 1, Len(str)))
    ELSE NoneOf

\* str::split_once(c): Some((before, after)) of the first c, or None
SplitOnce(str, c) ==
    IF \E i \in DOMAIN str : str[i] = c
    THEN LET i == CHOOSE k \in DOMAIN str :
                    str[k] = c /\ \A j \in 1..(k - 1) : str[j] # c
         IN  Some(<<SubSeq(str, 1, i - 1), SubSeq(str, i + 1, Len(str))>>)
    ELSE NoneOf

\* str::split_whitespace().collect::<Vec<_>>()
RECURSIVE SplitWhitespace(_)
SplitWhitespace(str) ==
    IF str = <<>> THEN <<>>
    ELSE IF str[1] = " " THEN SplitWhitespace(Tail(str))
    ELSE LET cut == SplitOnce(str, " ")
         IN  IF cut = NoneOf THEN <<str>>
             ELSE <<cut[1][1]>> \o SplitWhitespace(cut[1][2])

\* str::parse::<u8>() / <u16>(): digits after an optional '+', within max
ParseUnsigned(str, max) ==
    LET body == IF str # <<>> /\ str[1] = "+" THEN Tail(str) ELSE str
    IN  IF body # <<>> /\ IsDigits(body) /\ NatOf(body) <= max
        THEN Ok(NatOf(body)) ELSE Err("ParseIntError")

\* str::parse::<i64>()
ParseSigned(str) ==
    LET neg == str # <<>> /\ str[1] = "-"
        body == IF str # <<>> /\ str[1] \in {"+", "-"} THEN Tail(str) ELSE str
    IN  IF body # <<>> /\ IsDigits(body)
        THEN Ok(IF neg THEN 0 - NatOf(body) ELSE NatOf(body))
        ELSE Err("ParseIntError")

\* str::parse::<f64>() of a decimal text: sign, digits, optional point
ParseF64(str) ==
    LET neg == str # <<>> /\ str[1] = "-"
        body == IF str # <<>> /\ str[1] \in {"+", "-"} THEN Tail(str) ELSE str
        cut == SplitOnce(body, ".")
        whole == IF cut = NoneOf THEN body ELSE cut[1][1]
        frac == IF cut = NoneOf THEN <<>> ELSE cut[1][2]
    IN  IF (whole \o frac) # <<>> /\ IsDigits(whole) /\ IsDigits(frac)
        THEN Ok(Real(IF neg THEN 0 - NatOf(whole \o frac) ELSE NatOf(whole \o frac),
                     Pow10(Len(frac))))
        ELSE Err("ParseFloatError")

\* .parse().unwrap_or(0.0)
UnwrapOr0(r) == IF r.kind = "Ok" THEN r.val ELSE Real(0, 1)

\* The response of the catalog service: the cells of the one table row, as the
\* XML reader reports them.  <TD>text</TD> is Start, Text, End; <TD></TD> is
\* Start, End; <TD/> is one Empty event.
Ev(kind, what) == [kind |-> kind, what |-> what]

RECURSIVE CellEvents(_)
CellEvents(cells) ==
    IF cells = <<>> THEN <<>>
    ELSE LET c == cells[1]
         IN  (IF c.form = "selfclosed" THEN <<Ev("Empty", "TD")>>
              ELSE IF c.text = <<>> THEN <<Ev("Start", "TD"), Ev("End", "TD")>>
              ELSE <<Ev("Start", "TD"), Ev("Text", c.text), Ev("End", "TD")>>)
             \o <<Ev("Text", <<" ">>)>> \o CellEvents(Tail(cells))

EventsOf(cells) ==
    <<Ev("Start", "TABLEDATA"), Ev("Text", <<" ">>), Ev("Start", "TR")>>
    \o CellEvents(cells)
    \o <<Ev("End", "TR"), Ev("End", "TABLEDATA"), Ev("Eof", "")>>

\* the loop over xml_reader.read_event_into: from event i on, with the
\* columns pushed so far and the two flags
RECURSIVE ScanTable(_, _, _, _, _)
ScanTable(events, i, columns, td_read, td_text) ==
    LET e == events[i] IN
    IF e.kind = "Eof" THEN columns
    ELSE IF e.kind = "Start"
    THEN ScanTable(events, i + 1, columns, td_read \/ e.what = "TD", td_text)
    ELSE IF e.kind = "Text"
    THEN IF td_read THEN ScanTable(events, i + 1, Append(columns, e.what), td_read, TRUE)
         ELSE ScanTable(events, i + 1, columns, td_read, td_text)
    ELSE IF e.kind = "End"
    THEN IF e.what = "TD"
         THEN ScanTable(events, i + 1,
                        IF td_text THEN columns ELSE Append(columns, <<>>),
                        FALSE, FALSE)
         ELSE ScanTable(events, i + 1, columns, td_read, td_text)
    ELSE ScanTable(events, i + 1, columns, td_read, td_text)

\* "Parse catalog info"
ParseCatalog(column) ==
    LET cut == SplitOnce(column, " ") IN
    IF cut = NoneOf THEN Ok(<<<<>>, 0>>)
    ELSE LET id == ParseSigned(cut[1][2])
         IN  IF id.kind = "Err" THEN Panic("Invalid catalog ID")
             ELSE Ok(<<cut[1][1], id.val>>)

\* "Parse RA and DEC": three parts, the first two unsigned integers of the
\* given width, the third an f64
ParseSexagesimal(column, max, what) ==
    LET parts == SplitWhitespace(column) IN
    IF Len(parts) < 1 THEN Panic("index out of bounds")
    ELSE IF ParseUnsigned(parts[1], max).kind = "Err" THEN Panic("invalid " \o what)
    ELSE IF Len(parts) < 2 THEN Panic("index out of bounds")
    ELSE IF ParseUnsigned(parts[2], max).kind = "Err" THEN Panic("invalid " \o what)
    ELSE IF Len(parts) < 3 THEN Panic("index out of bounds")
    ELSE IF ParseF64(parts[3]).kind = "Err" THEN Panic("invalid " \o what)
    ELSE Ok(<<ParseUnsigned(parts[1], max).val, ParseUnsigned(parts[2], max).val,
              ParseF64(parts[3]).val>>)

\* "SIMBAD appends NAME to qualify common or historical names"
SimbadName(column) ==
    IF StartsWith(column, <<"N", "A", "M", "E">>)
    THEN LET rest == StripPrefix(column, <<"N", "A", "M", "E", " ">>)
         IN  IF rest = NoneOf THEN Panic("called Option::unwrap() on a None value")
             ELSE Ok(rest[1])
    ELSE Ok(column)

\* (x.0 as f64) + (x.1 as f64) / 60.0 + (x.2 as f64) / 3600.0
Sexagesimal(x) == Real((x[1] * 3600 + x[2] * 60) * x[3].per + x[3].n, 3600 * x[3].per)

\* CatalogEntry::new_hms (the four trailing numbers are passed through)
CatalogEntryNewHms(name, catalog, num, ra, dec) ==
    CatalogEntryNew(Str(Len(name), FALSE, name), Str(Len(catalog), FALSE, catalog),
                    num, Sexagesimal(ra), Sexagesimal(dec))

\* CatalogEntry::from_simbad, from the response on: the result, and the
\* arguments of the new_hms call if it gets that far
FromSimbad(resp) ==
    IF ~resp.ok THEN [res |-> Err("Reqwest"), new_hms |-> <<>>]
    ELSE
      LET columns == ScanTable(EventsOf(resp.cells), 1, <<>>, FALSE, FALSE)
          fault(m) == [res |-> Panic(m), new_hms |-> <<>>]
      IN
      IF Len(columns) < 2 THEN fault("index out of bounds")
      ELSE IF ParseCatalog(columns[2]).kind = "Panic"
      THEN [res |-> ParseCatalog(columns[2]), new_hms |-> <<>>]
      ELSE IF Len(columns) < 3 THEN fault("index out of bounds")
      ELSE IF ParseSexagesimal(columns[3], 255, "ra").kind = "Panic"
      THEN [res |-> ParseSexagesimal(columns[3], 255, "ra"), new_hms |-> <<>>]
      ELSE IF Len(columns) < 4 THEN fault("index out of bounds")
      ELSE IF ParseSexagesimal(columns[4], 65535, "dec").kind = "Panic"
      THEN [res |-> ParseSexagesimal(columns[4], 65535, "dec"), new_hms |-> <<>>]
      ELSE IF SimbadName(columns[1]).kind = "Panic"
      THEN [res |-> SimbadName(columns[1]), new_hms |-> <<>>]
      ELSE IF Len(columns) < 8 THEN fault("index out of bounds")
      ELSE LET cat == ParseCatalog(columns[2]).val
               a == <<SimbadName(columns[1]).val, cat[1], cat[2],
                      ParseSexagesimal(columns[3], 255, "ra").val,
                      ParseSexagesimal(columns[4], 65535, "dec").val,
                      UnwrapOr0(ParseF64(columns[5])), UnwrapOr0(ParseF64(columns[6])),
                      UnwrapOr0(ParseF64(columns[7])), UnwrapOr0(ParseF64(columns[8]))>>
           IN  [res |-> CatalogEntryNewHms(a[1], a[2], a[3], a[4], a[5]),
                new_hms |-> a]

\* the tables the service is taken to answer with: a name with and without
\* the NAME qualifier, a catalog column with and without a number, both signs
\* of declination, an empty numeric cell written either way, and a last
\* column left out
\* texts of the cells
NAME_VEGA == <<"N", "A", "M", "E", " ", "V", "e", "g", "a">>
PLAIN_VEGA == <<"V", "e", "g", "a">>
NAMELESS == <<"N", "A", "M", "E", "V", "e", "g", "a">>
HIP_NUM == <<"H", "I", "P", " ", "9", "1", "2", "6", "2">>
STAR_ALF == <<"*", " ", "a", "l", "f", " ", "L", "y", "r">>
DEC_NORTH == <<"+", "3", "8", " ", "4", "7", " ", "0", "1", ".", "2">>
DEC_SOUTH == <<"-", "1", "6", " ", "4", "2", " ", "5", "8", ".", "0">>
RA_VEGA == <<"1", "8", " ", "3", "6", " ", "5", "6", ".", "3">>
PM_RA == <<"2", "0", "0", ".", "9">>
PM_DEC == <<"1", "9">>
PLX == <<"1", "3", "0", ".", "2">>
RV == <<"-", "1", "3", ".", "5">>

Cell(form, text) == [form |-> IF text = <<>> THEN form ELSE "pair", text |-> text]

SimbadNames ==
    {NAME_VEGA, PLAIN_VEGA, NAMELESS}
SimbadCatalogs ==
    {HIP_NUM, <<>>, STAR_ALF}
SimbadDecs ==
    {DEC_NORTH, DEC_SOUTH}

SimbadResponses ==
    {[ok |-> FALSE, cells |-> <<>>]} \cup
    {[ok |-> TRUE,
      cells |-> SubSeq(<<Cell(form, name), Cell(form, cat), Cell(form, RA_VEGA),
                         Cell(form, dec), Cell(form, pm), Cell(form, PM_DEC),
                         Cell(form, PLX), Cell(form, RV)>>, 1, n)] :
        name \in SimbadNames, cat \in SimbadCatalogs, dec \in SimbadDecs,
        pm \in {PM_RA, <<>>}, form \in {"pair", "selfclosed"}, n \in {7, 8}}

\* from_simbad for each of these responses
SimbadAnswers == [resp \in SimbadResponses |-> FromSimbad(resp)]

-----------------------------------------------------------------------------
(* SpecWrap: whole calls of the wrappers.  The values a call takes (an      *)
(* observer, a time, a frame, the catalog entry) are ones the constructors *)
(* return.                                                                 *)

\* entries CatalogEntry::new returns, one of them since moved by transform
Entries ==
    LET e == make_cat_entry(Str(SIZE_OF_OBJ_NAME, FALSE, "Vega"),
                            Str(SIZE_OF_CAT_NAME - 1, FALSE, "HIP"), 91262, 18, 38).out
    IN  {e, transform_cat("PROPER_MOTION", 2451545, e, 2460000,
                          <<Str(SIZE_OF_CAT_NAME, FALSE, "FK6")>>)}

\* frames Frame::new returns
SomeFrames ==
    {FrameNew("Full", ObserverNewOnSurface(37, -118, 1222, 10, 1010), t, 0, 0, 0).val
        : t \in Timespecs}
    \cup {FrameNew("Reduced", ObserverNewAtGeocenter, t, 0, 0, 0).val : t \in Timespecs}

\* self is the entry as the call leaves it (NoSelf for a call that takes none)
NoSelf == [filled |-> FALSE, g |-> 0]

WCall(op, args, engine, res, before, self) ==
    [op |-> op, args |-> args, engine |-> engine, res |-> res,
     before |-> before, self |-> self]

Registry == <<provider, poisoned, hooks, alive, everProvided, lock, th, settled,
              objs>>

\* what assume_init() reads from an output the engine reported on with st
LeftBy(st) == IF st = 0 THEN {0} ELSE Leftovers

ObserverNew ==
    /\ \E o \in Observers :
         last' = WCall("Observer::new", [location |-> o.location],
                       <<ECall("make_observer", <<>>, 0)>>, Ok(o), NoSelf, NoSelf)
    /\ UNCHANGED Registry

TimespecNew ==
    /\ \E scale \in {"TT", "UTC"}, fjd \in {0, 1}, st \in EngineStatuses :
       \E g \in LeftBy(st) :
         last' = WCall("Timespec::from_split_time",
                       [timescale |-> scale, ijd |-> 2460570, fjd |-> fjd],
                       <<ECall("novas_set_split_time", <<scale, 2460570, fjd>>, st)>>,
                       Ok(TimespecFromSplitTime(scale, 2460570, fjd, 37, 0, st, g)),
                       NoSelf, NoSelf)
    /\ UNCHANGED Registry

\* Timespec::from((epoch, ut1_provider))
TimespecFromEpoch ==
    /\ \E epoch \in Epochs, st \in EngineStatuses :
       \E g \in LeftBy(st) :
         LET a == SplitOfEpoch(epoch, 37, 0) IN
         last' = WCall("Timespec::from", [epoch |-> epoch],
                       <<ECall("novas_set_split_time",
                               <<a.timescale, a.ijd, a.fjd>>, st)>>,
                       Ok(TimespecFromSplitTime(a.timescale, a.ijd, a.fjd, a.leap,
                                                a.dut1, st, g)),
                       NoSelf, NoSelf)
    /\ UNCHANGED Registry

\* CatalogEntry::from_simbad(ident, catalog), the service answering resp.  The
\* new_hms call it ends in is recorded with the values it is passed.
CatalogEntryFromSimbad ==
    /\ \E resp \in SimbadResponses :
         LET r == SimbadAnswers[resp] IN
         last' = WCall("CatalogEntry::from_simbad", [resp |-> resp],
                       IF r.new_hms = <<>> THEN <<>>
                       ELSE <<ECall("CatalogEntry::new_hms", r.new_hms, 0)>>,
                       r.res, NoSelf, NoSelf)
    /\ UNCHANGED Registry

CatalogEntryNewCall ==
    /\ \E name \in Names, catalog \in CatalogCodes :
         LET r == CatalogEntryNew(name, catalog, 91262, 18, 38) IN
         last' = WCall("CatalogEntry::new", [name |-> name, catalog |-> catalog],
                       IF r.kind = "Ok"
                       THEN <<ECall("make_cat_entry", <<name, catalog>>,
                                    make_cat_entry(name, catalog, 91262, 18, 38).status)>>
                       ELSE <<>>,
                       r, NoSelf, NoSelf)
    /\ UNCHANGED Registry

\* CatalogEntry::transform(&mut self, transformation, new_cat)
CatalogEntryTransform ==
    /\ \E self \in Entries, transformation \in Transformations,
          new_cat \in {NoneOf} \cup {Some(c) : c \in CatalogCodes} :
         LET dates == TransformDates(transformation)
             out_id == OutId(new_cat)
             args == [transformation |-> transformation, new_cat |-> new_cat]
         IN  IF out_id.kind = "Err"
             THEN last' = WCall("CatalogEntry::transform", args, <<>>, out_id, self, self)
             ELSE \E read \in ReadsAt(out_id.val), st \in EngineStatuses :
                    last' = WCall("CatalogEntry::transform", args,
                                  <<ECall("transform_cat",
                                          <<novas_transform_type(transformation),
                                            dates[1], dates[2], out_id.val,
                                            OutIdStorage(out_id.val)>>, st)>>,
                                  Ok(<<>>), self,
                                  IF st = 0
                                  THEN transform_cat(novas_transform_type(transformation),
                                                     dates[1], self, dates[2], read)
                                  ELSE self)
    /\ UNCHANGED Registry

FrameNewCall ==
    /\ \E acc \in {"Full", "Reduced"}, obs \in Observers, time \in Timespecs,
          ret \in EngineStatuses :
         last' = WCall("Frame::new", [acc |-> acc, obs |-> obs, time |-> time],
                       <<ECall("novas_make_frame", <<novas_accuracy(acc)>>, ret)>>,
                       FrameNew(acc, obs, time, 0, 0, ret), NoSelf, NoSelf)
    /\ UNCHANGED Registry

SkyPositionTryFromFrameEntryCall ==
    /\ \E ent \in Entries, frame \in SomeFrames, ref_sys \in RefSystems,
          st_obj \in EngineStatuses, ret \in EngineStatuses :
         last' = WCall("SkyPosition::try_from_frame_entry",
                       [frame |-> frame, ref_sys |-> ref_sys],
                       <<ECall("make_cat_object", <<>>, st_obj),
                         ECall("novas_sky_pos", <<novas_reference_system(ref_sys)>>, ret)>>,
                       SkyPositionTryFromFrameEntry(ent, frame, ref_sys, st_obj, ret),
                       ent, ent)
    /\ UNCHANGED Registry

SkyPositionPlaceCall ==
    /\ \E ent \in Entries, obs \in Observers, ref_sys \in RefSystems,
          acc \in {"Full", "Reduced"}, ret \in EngineStatuses :
         last' = WCall("SkyPosition::place",
                       [obs |-> obs, ref_sys |-> ref_sys, acc |-> acc],
                       <<ECall("place_star", <<novas_reference_system(ref_sys),
                                               novas_accuracy(acc)>>, ret)>>,
                       SkyPositionPlace(2460570, ent, obs, 69, ref_sys, acc, ret),
                       ent, ent)
    /\ UNCHANGED Registry

FrameApparentLocalCoordinatesCall ==
    /\ \E ent \in Entries, frame \in SomeFrames, ref_sys \in RefSystems,
          st_obj \in EngineStatuses, ret \in EngineStatuses, st_hor \in EngineStatuses :
       \E g \in LeftBy(st_hor) :
         last' = WCall("Frame::apparent_local_coordinates",
                       [frame |-> frame, ref_sys |-> ref_sys],
                       <<ECall("make_cat_object", <<>>, st_obj),
                         ECall("novas_sky_pos", <<novas_reference_system(ref_sys)>>, ret)>>
                       \o (IF ret = 0
                           THEN <<ECall("novas_app_to_hor",
                                        <<novas_reference_system(ref_sys)>>, st_hor)>>
                           ELSE <<>>),
                       FrameApparentLocalCoordinates(frame, ref_sys, ent, st_obj,
                                                     ret, st_hor, g),
                       ent, ent)
    /\ UNCHANGED Registry

NextWrap ==
    \/ ObserverNew
    \/ TimespecNew
    \/ TimespecFromEpoch
    \/ CatalogEntryFromSimbad
    \/ CatalogEntryNewCall
    \/ CatalogEntryTransform
    \/ FrameNewCall
    \/ SkyPositionTryFromFrameEntryCall
    \/ SkyPositionPlaceCall
    \/ FrameApparentLocalCoordinatesCall

SpecWrap == Init /\ [][NextWrap]_vars

-----------------------------------------------------------------------------
(* Properties of the registry calls (Spec) *)

CallbackOps ==
    {"ceph_ephem_provider", "ceph_planet_provider", "ceph_planet_provider_hp"}

\* the call recorded in last returned a status code
Returned == last.op \in CallbackOps /\ last.res.kind = "Ok"

\* the generic lookup the recorded callback made, redone on the state the
\* call found
LookupOf(c) ==
    IF c.op = "ceph_ephem_provider"
    THEN naif_ephem_lookup(c.args.id.lo, c.args.jd_high, c.args.jd_low,
                           NOVAS_BARYCENTER, c.before.slot, c.before.psn).res
    ELSE IF c.op = "ceph_planet_provider_hp"
    THEN naif_ephem_lookup(novas_planet_naif(c.args.body).val, c.args.jd_tdb[1],
                           c.args.jd_tdb[2], c.args.origin, c.before.slot,
                           c.before.psn).res
    ELSE naif_ephem_lookup(novas_planet_naif(c.args.body).val, c.args.jd_tdb, 0,
                           c.args.origin, c.before.slot, c.before.psn).res

\* the provider in the slot has data for the lookup's body, centre and date
HasData(a) ==
    /\ a.id \in Targets
    /\ a.jd_high + a.jd_low \in Covered
    /\ a.origin \in {NOVAS_BARYCENTER, NOVAS_HELIOCENTER}

\* C2 (as claimed): before the first successful provide_ephem every
\* naif_ephem_lookup, whatever the body id, origin and date, returns
\* Err(EphemNotLoaded) and every callback returns a nonzero status; after a
\* successful provide a lookup the provider has data for returns data.
C2_NotLoadedBeforeProvide ==
    /\ (last.op = "naif_ephem_lookup" /\ ~last.before.provided)
          => (last.res.kind = "Err" /\ last.res.err = "EphemNotLoaded")
    /\ (last.op \in CallbackOps /\ ~last.before.provided)
          => (last.res.kind = "Ok" /\ last.res.val # 0)
    /\ (last.op = "naif_ephem_lookup" /\ last.before.provided /\ HasData(last.args))
          => last.res.kind = "Ok"

\* C3 (as claimed): whatever the engine passes, a callback returns a status
\* code; no panic leaves it.
C3_CallbackNeverFaults ==
    last.op \in CallbackOps => last.res.kind = "Ok"

\* C4: a callback that returns 0 made a successful lookup and every non-null
\* output buffer holds its half of the result (position 0..2, velocity 3..5);
\* a callback that returns a nonzero status leaves both buffers as they were.
C4_StatusAndBuffers ==
    Returned =>
      IF last.res.val = 0
      THEN LET lk == LookupOf(last) IN
           /\ lk.kind = "Ok"
           /\ last.args.pos # Null => last.pos = SubSeq(lk.val, 1, 3)
           /\ last.args.vel # Null => last.vel = SubSeq(lk.val, 4, 6)
           /\ last.args.pos = Null => last.pos = Null
           /\ last.args.vel = Null => last.vel = Null
      ELSE last.pos = last.args.pos /\ last.vel = last.args.vel

\* a planet callback returned 0 and filled both buffers
C4_Witness ==
    /\ Returned /\ last.op = "ceph_planet_provider_hp" /\ last.res.val = 0
    /\ last.pos # Stale /\ last.vel # Stale /\ last.pos # last.vel

\* C9 (as claimed): whatever calls came before, failed lookups included,
\* provide_ephem of a file that opens returns Ok and leaves that file's
\* provider in the slot, and a lookup it has data for then succeeds.
C9_RegistryStaysUsable ==
    /\ (last.op = "provide_ephem" /\ last.args.file \in Sources)
          => (last.res.kind = "Ok" /\ provider = last.args.file)
    /\ (last.op = "naif_ephem_lookup" /\ provider # None /\ HasData(last.args))
          => last.res.kind = "Ok"

-----------------------------------------------------------------------------
(* Properties of the wrapper calls (SpecWrap) *)

TooLong(a) == a.name.len > SIZE_OF_OBJ_NAME \/ a.catalog.len > SIZE_OF_CAT_NAME
InvalidString(res) == res.kind = "Err" /\ res.err = "InvalidString"

\* C5 (as claimed): CatalogEntry::new returns Err(InvalidString) if and only
\* if the name or the catalog code is longer than its maximum length, and
\* otherwise Ok with an entry holding the name and the code.
C5_ErrIffTooLong ==
    last.op = "CatalogEntry::new" =>
      /\ InvalidString(last.res) <=> TooLong(last.args)
      /\ ~TooLong(last.args) =>
           /\ last.res.kind = "Ok"
           /\ last.res.val.starname = last.args.name
           /\ last.res.val.catalog = last.args.catalog

\* C5 (amended): CatalogEntry::new returns Err(InvalidString) if and only if
\* the name or the catalog code is longer than its maximum length or holds
\* an embedded NUL; at lengths max-1 and max without a NUL it returns Ok with
\* an entry holding the name and the code, at max+1 it returns the error.
C5_ErrIffTooLongOrNul ==
    last.op = "CatalogEntry::new" =>
      LET a == last.args
          bad == TooLong(a) \/ a.name.nul \/ a.catalog.nul
      IN  /\ InvalidString(last.res) <=> bad
          /\ ~bad =>
               /\ last.res.kind = "Ok"
               /\ last.res.val.filled
               /\ last.res.val.starname = a.name
               /\ last.res.val.catalog = a.catalog

\* both texts at their maximum length, the code with a NUL in it: refused
C5_Witness ==
    /\ last.op = "CatalogEntry::new"
    /\ last.args.name.len = SIZE_OF_OBJ_NAME /\ ~last.args.name.nul
    /\ last.args.catalog.len = SIZE_OF_CAT_NAME /\ last.args.catalog.nul
    /\ InvalidString(last.res)

WrapperOps ==
    {"Observer::new", "Timespec::from_split_time", "CatalogEntry::new",
     "CatalogEntry::transform", "SkyPosition::try_from_frame_entry", "Frame::new",
     "Frame::apparent_local_coordinates"}

\* C6 (as claimed): a wrapper call in which some engine call reported a
\* nonzero status does not return Ok.
C6_NoRecordWithoutSuccess ==
    (/\ last.op \in WrapperOps
     /\ \E i \in DOMAIN last.engine : last.engine[i].status # 0)
      => last.res.kind # "Ok"

\* the status novas_sky_pos / place_star reported in the recorded call
SkyStatus == last.engine[Len(last.engine)].status

\* C7 (as claimed): try_from_frame_entry and place return the engine's nonzero
\* status as Err(LowerLevel(status)), without a fault, and Ok only on status 0.
C7_StatusAsLowerLevel ==
    last.op \in {"SkyPosition::try_from_frame_entry", "SkyPosition::place"} =>
      /\ last.res.kind # "Panic"
      /\ SkyStatus # 0 => last.res = Err_LowerLevel(SkyStatus)
      /\ last.res.kind = "Ok" => SkyStatus = 0

\* C8: Frame::new returns Err(LowerLevel(ret)), with the engine's status ret
\* unchanged and no frame, exactly when ret is nonzero, and Ok(frame), with
\* the frame the engine filled, exactly when ret is zero.
C8_FrameNewStatus ==
    last.op = "Frame::new" =>
      LET ret == last.engine[1].status IN
      /\ ret # 0 <=> (last.res.kind = "Err" /\ last.res.err = "LowerLevel")
      /\ ret # 0 => last.res.val = ret
      /\ ret = 0 <=> last.res.kind = "Ok"
      /\ ret = 0 => last.res.val = MakeFrame(novas_accuracy(last.args.acc),
                                             last.args.obs.inner, last.args.time, 0, 0)

\* the engine refused the frame with a negative status, which came back as is
C8_Witness ==
    /\ last.op = "Frame::new"
    /\ last.engine[1].status = -1
    /\ last.res = Err_LowerLevel(-1)

\* a replacement code CatalogEntry::transform must refuse
BadCode(new_cat) ==
    new_cat # NoneOf /\ (new_cat[1].len > SIZE_OF_CAT_NAME \/ new_cat[1].nul)

\* C10: CatalogEntry::transform without a replacement code leaves the catalog
\* code as it was; with one that is longer than the maximum catalog-code
\* length or holds a NUL it returns Err(InvalidString), calls no engine
\* function and leaves the entry as it was; the engine is passed the dates of
\* an epoch-pair transformation and (0, 0) for J2000ToICRS and ICRSToJ2000.
C10_TransformCodeAndDates ==
    last.op = "CatalogEntry::transform" =>
      LET a == last.args IN
      /\ a.new_cat = NoneOf => last.self.catalog = last.before.catalog
      /\ BadCode(a.new_cat) =>
           /\ InvalidString(last.res)
           /\ last.engine = <<>>
           /\ last.self = last.before
      /\ ~BadCode(a.new_cat) => Len(last.engine) = 1
      /\ last.engine # <<>> =>
           LET e == last.engine[1].args IN
           IF a.transformation.kind \in {"J2000ToICRS", "ICRSToJ2000"}
           THEN e[2] = 0 /\ e[3] = 0
           ELSE e[2] = a.transformation.jd_tt_in /\ e[3] = a.transformation.jd_tt_out

\* an over-long replacement code was refused and the entry left alone
C10_Witness ==
    /\ last.op = "CatalogEntry::transform"
    /\ last.args.new_cat # NoneOf
    /\ last.args.new_cat[1].len = SIZE_OF_CAT_NAME + 1
    /\ ~last.args.new_cat[1].nul
    /\ InvalidString(last.res)
    /\ last.self = last.before

-----------------------------------------------------------------------------
(* Units of the generic lookup (Spec) *)

\* the six components the provider in the slot holds for the recorded lookup,
\* in km and km/s
FixedState(c) ==
    LET center == OriginCenter(c.args.origin).val
    IN  PosKm(c.before.slot, c.args.id, center)
          \o VelKmS(c.before.slot, c.args.id, center)

\* C11 (as claimed): a naif_ephem_lookup that succeeds returns each of the
\* provider's six components (km, km/s) divided once by AU and changed in no
\* other way.
C11_DividedByAUOnly ==
    (last.op = "naif_ephem_lookup" /\ last.res.kind = "Ok") =>
      \A i \in 1..6 : last.res.val[i] = DivAU(Qty(FixedState(last)[i]))

-----------------------------------------------------------------------------
(* The planet callbacks (Spec) *)

PlanetOps == {"ceph_planet_provider", "ceph_planet_provider_hp"}

\* Sun, Moon, the eight planets and the solar-system barycenter
ElevenBodies == DOMAIN PlanetNaif \ {"NOVAS_PLUTO"}
\* every named constant of novas_planet
TwelveBodies == DOMAIN PlanetNaif

\* the recorded planet callback got past its pointer checks, with an origin
\* the lookup knows and the mutex not poisoned: what it returns is up to the
\* body alone
BodyDecides ==
    /\ last.op \in PlanetOps
    /\ last.op = "ceph_planet_provider_hp" => last.args.jd_tdb # Null
    /\ last.args.pos # Null /\ last.args.vel # Null
    /\ last.args.origin \in {NOVAS_BARYCENTER, NOVAS_HELIOCENTER}
    /\ ~last.before.psn

\* the outcome of the high-precision callback for the arguments of the
\* recorded low-precision call, the date split as (jd, 0)
HpOfLast ==
    ceph_planet_provider_hp(<<last.args.jd_tdb, 0>>, last.args.body,
                            last.args.origin, last.args.pos, last.args.vel,
                            last.before.slot, last.before.psn)

\* the callbacks accept exactly the bodies of the set, through one injective
\* mapping, and the low-precision form equals the high-precision one at (jd, 0)
PlanetContract(bodies) ==
    /\ BodyDecides => (last.res.kind = "Ok" <=> last.args.body \in bodies)
    /\ last.op \in PlanetOps =>
         /\ \A b \in bodies : novas_planet_naif(b).kind = "Ok"
         /\ \A b1, b2 \in bodies :
              b1 # b2 => novas_planet_naif(b1).val # novas_planet_naif(b2).val
    /\ (BodyDecides /\ last.res.kind = "Ok" /\ last.res.val = 0) =>
         LET jd == IF last.op = "ceph_planet_provider_hp" THEN last.args.jd_tdb
                   ELSE <<last.args.jd_tdb, 0>>
             lk == naif_ephem_lookup(PlanetNaif[last.args.body], jd[1], jd[2],
                                     last.args.origin, last.before.slot, FALSE).res
         IN  last.pos = SubSeq(lk.val, 1, 3) /\ last.vel = SubSeq(lk.val, 4, 6)
    /\ last.op = "ceph_planet_provider" =>
         /\ last.res = HpOfLast.res
         /\ last.pos = HpOfLast.pos
         /\ last.vel = HpOfLast.vel

\* C12 (as claimed): the planet callbacks accept exactly the eleven canonical
\* bodies (Sun, Moon, eight planets, barycenter), map each to one fixed id
\* through the same injective mapping, and the low-precision form with date
\* jd gives the status and position/velocity of the high-precision form with
\* (jd, 0).
C12_ElevenBodies == PlanetContract(ElevenBodies)

\* C12 (amended): the same of the twelve bodies the callbacks accept, Pluto
\* among them.
C12_TwelveBodies == PlanetContract(TwelveBodies)

\* the low-precision callback answered for Pluto
C12_Witness ==
    /\ BodyDecides /\ last.op = "ceph_planet_provider"
    /\ last.args.body = "NOVAS_PLUTO"
    /\ last.res = Ok(0) /\ last.pos # Stale /\ last.vel # Stale

-----------------------------------------------------------------------------
(* SpecLife: a caller making, using and destroying Observer, Timespec and  *)
(* Frame values.  Frame<'a> carries the lifetime 'a of the two references  *)
(* given to Frame::new (obs: &'a Observer, time: &'a Timespec), so the     *)
(* compiler accepts the destruction (drop, or move) of a value only when   *)
(* no frame that borrows it is used afterwards.  Values are numbered in    *)
(* the order they are made; a number is never used again.                  *)

\* the borrows a frame holds with only the Observer's lifetime captured
FrameBorrows_ObserverOnly(o, t) == {<<"obs", o>>}

\* impl<'a> Frame<'a> { fn new(.., obs: &'a Observer, time: &'a Timespec, ..) }:
\* the values a Frame<'a> keeps borrowed for as long as it is in use
FrameBorrows(o, t) == {<<"obs", o>>, <<"time", t>>}

LiveFrames == {f \in DOMAIN objs.frame : objs.frame[f].state = "live"}

\* some frame still in use borrows the value
Borrowed(kind, id) ==
    \E f \in LiveFrames : <<kind, id>> \in objs.frame[f].borrows

LifeStep(o) ==
    /\ objs' = o
    /\ UNCHANGED <<provider, poisoned, hooks, alive, everProvided, last, lock, th,
                   settled>>

\* Observer::new_on_surface / new_in_space / new_at_geocenter
ObserverCreate ==
    /\ Len(objs.obs) < MaxObjs
    /\ LifeStep([objs EXCEPT !.obs = Append(@, "alive"), !.used = <<>>])

\* Timespec::from_split_time
TimespecCreate ==
    /\ Len(objs.time) < MaxObjs
    /\ LifeStep([objs EXCEPT !.time = Append(@, "alive"), !.used = <<>>])

\* Frame::new(acc, &obs, &time, dx, dy), the engine reporting ret
FrameCreate ==
    /\ Len(objs.frame) < MaxFrames
    /\ \E o \in DOMAIN objs.obs, t \in DOMAIN objs.time, ret \in EngineStatuses :
         /\ objs.obs[o] = "alive" /\ objs.time[t] = "alive"
         /\ LET r == FrameNew("Reduced", ObserverNewAtGeocenter,
                              SetSplitTime("TT", 2460570, 0, 37, 0), 0, 0, ret)
            IN  IF r.kind = "Ok"
                THEN LifeStep([objs EXCEPT
                        !.frame = Append(@, [state |-> "live", obs |-> o, time |-> t,
                                             borrows |-> FrameBorrows(o, t)]),
                        !.used = <<>>])
                ELSE LifeStep([objs EXCEPT !.used = <<>>])

\* the Observer goes out of scope, is dropped or is moved away
ObserverDrop ==
    \E o \in DOMAIN objs.obs :
      /\ objs.obs[o] = "alive"
      /\ ~Borrowed("obs", o)
      /\ LifeStep([objs EXCEPT !.obs[o] = "dropped", !.used = <<>>])

\* the Timespec goes out of scope, is dropped or is moved away
TimespecDrop ==
    \E t \in DOMAIN objs.time :
      /\ objs.time[t] = "alive"
      /\ ~Borrowed("time", t)
      /\ LifeStep([objs EXCEPT !.time[t] = "dropped", !.used = <<>>])

\* the Frame is past its last use, or dropped: its borrows end
FrameEnd ==
    \E f \in LiveFrames :
      LifeStep([objs EXCEPT !.frame[f].state = "ended", !.used = <<>>])

\* SkyPosition::try_from_frame_entry(entry, &frame, ..) or
\* frame.apparent_local_coordinates(..): what the call finds behind the frame
FrameUse ==
    \E f \in LiveFrames,
       op \in {"SkyPosition::try_from_frame_entry", "Frame::apparent_local_coordinates"} :
      LifeStep([objs EXCEPT !.used =
                  <<[op |-> op, frame |-> f,
                     obs |-> objs.obs[objs.frame[f].obs],
                     time |-> objs.time[objs.frame[f].time]]>>])

NextLife ==
    \/ ObserverCreate
    \/ TimespecCreate
    \/ FrameCreate
    \/ ObserverDrop
    \/ TimespecDrop
    \/ FrameEnd
    \/ FrameUse

SpecLife == Init /\ [][NextLife]_vars

\* C13: a frame is used only while the Observer and the Timespec given to
\* Frame::new are both alive: every frame that can still be used has both,
\* and every use found both.
C13_FrameOutlivedByBoth ==
    /\ \A f \in LiveFrames :
         /\ objs.obs[objs.frame[f].obs] = "alive"
         /\ objs.time[objs.frame[f].time] = "alive"
    /\ objs.used # <<>> =>
         objs.used[1].obs = "alive" /\ objs.used[1].time = "alive"

\* a second frame is used after the first frame ended and the Timespec and
\* the Observer the first was built from were destroyed
C13_Witness ==
    /\ objs.used # <<>> /\ objs.used[1].frame = 2
    /\ objs.frame[1].state = "ended"
    /\ objs.obs[objs.frame[1].obs] = "dropped"
    /\ objs.time[objs.frame[1].time] = "dropped"

-----------------------------------------------------------------------------
(* Locking discipline (SpecConcFair) *)

\* where a thread is while it holds the guard: past lock() and before the
\* return of the one call that took it
HoldingPcs == {"p_store", "p_attach", "p_ret", "l_origin", "l_slot", "l_vel", "l_ret"}

\* the guard is held by a thread exactly while it is inside one call, past
\* its lock(): not between calls, not while the file is being opened, not
\* while it waits in lock()
GuardWithinOneCall ==
    /\ lock # NoThread => lock \in Threads
    /\ \A t \in Threads : (lock = t) <=> (th[t].pc \in HoldingPcs)

-----------------------------------------------------------------------------
(* The replacement code handed to the engine (SpecWrap) *)

\* C15 (as claimed): when CatalogEntry::transform is given a valid
\* replacement code, the buffer whose address transform_cat receives is still
\* allocated when the engine reads it.
C15_BufferStillAllocated ==
    (/\ last.op = "CatalogEntry::transform"
     /\ last.args.new_cat # NoneOf
     /\ last.engine # <<>>)
      => last.engine[1].args[5] = "allocated"

-----------------------------------------------------------------------------
(* The split of an Epoch (SpecWrap) *)

\* a / b as fractions, one denominator a multiple of the other
RealEq(a, b) ==
    LET lo == IF a.per <= b.per THEN a ELSE b
        hi == IF a.per <= b.per THEN b ELSE a
        k == hi.per \div lo.per
    IN  /\ hi.per % lo.per = 0
        /\ lo.n <= hi.n \div k
        /\ lo.n * k = hi.n

\* C16 (as claimed): the split a Timespec is built from for an Epoch is in TT:
\* the timescale is TT, the integer part is the whole number of TT Julian
\* days and the fractional part is the rest of the TT Julian date in days,
\* at least 0 and less than 1.
C16_SplitIsTTInDays ==
    last.op = "Timespec::from" =>
      LET e == last.engine[1].args
          tt == ToJdeTtDuration(last.args.epoch)
      IN  /\ e[1] = "TT"
          /\ e[2] = tt.d
          /\ 0 <= e[3].n /\ e[3].n < e[3].per
          /\ RealEq(e[3], Real(tt.ms, 86400000))

-----------------------------------------------------------------------------
(* A provide_ephem that fails (SpecConc) *)

AllHooks == {"ephem", "planet", "planet_hp"}

\* thread t is in a provide_ephem whose file does not open
FailingProvide(t) == InProvide(t) /\ th[t].file \notin Sources

\* thread t takes a step of such a provide_ephem, its return included
FailingProvideStep(t) == FailingProvide(t) /\ th'[t].pc # th[t].pc

\* C17: a provide_ephem whose file does not open returns the load error
\* having changed neither the slot nor the registered callbacks and without
\* ever taking the lock; no step empties a filled slot; and whenever the
\* callbacks are registered, all three are and the slot holds a provider.
C17_FailedProvideChangesNothing ==
    /\ [](\A t \in Threads : FailingProvide(t) => lock # t)
    /\ [][\A t \in Threads :
            FailingProvideStep(t) =>
              /\ UNCHANGED <<provider, hooks, lock, poisoned>>
              /\ th'[t].pc = "done"
              /\ th'[t].res = Err("Calceph")]_vars
    /\ [][provider # None => provider' # None]_vars
    /\ [](hooks # {} => (hooks = AllHooks /\ provider # None))

\* a provide_ephem returned the load error while another provider stays in
\* the slot, its callbacks registered
C17_Witness ==
    \E t \in Threads :
      /\ th[t].op = "provide_ephem" /\ th[t].pc = "done"
      /\ th[t].res = Err("Calceph")
      /\ provider = "src1" /\ hooks = AllHooks

-----------------------------------------------------------------------------
(* The table of the catalog service (SpecWrap) *)

\* the text of each cell of the answered table, in order
RECURSIVE CellTexts(_)
CellTexts(cells) ==
    IF cells = <<>> THEN <<>> ELSE <<cells[1].text>> \o CellTexts(Tail(cells))

\* the column holds "<catalog> <number>"
IsCatalogPair(column) ==
    LET cut == SplitOnce(column, " ")
    IN  cut # NoneOf /\ cut[1][1] # <<>> /\ ParseSigned(cut[1][2]).kind = "Ok"

\* C18 (as claimed): from_simbad, answered with a table, does not fault and
\* hands new_hms the columns in their fixed order, one per cell, empty or
\* not: the name without a leading "NAME " and otherwise as it is, 0.0 for a
\* numeric column that is missing or empty, and the empty catalog code with
\* number zero for a catalog column without a "<catalog> <number>" pair.
C18_FromSimbadByColumn ==
    (last.op = "CatalogEntry::from_simbad" /\ last.args.resp.ok) =>
      LET cols == CellTexts(last.args.resp.cells)
          name_sp == <<"N", "A", "M", "E", " ">>
      IN  /\ last.res.kind # "Panic"
          /\ last.engine # <<>>
          /\ LET a == last.engine[1].args IN
             /\ a[1] = IF StartsWith(cols[1], name_sp)
                       THEN SubSeq(cols[1], 6, Len(cols[1])) ELSE cols[1]
             /\ IF IsCatalogPair(cols[2])
                THEN a[2] = SplitOnce(cols[2], " ")[1][1]
                     /\ a[3] = ParseSigned(SplitOnce(cols[2], " ")[1][2]).val
                ELSE a[2] = <<>> /\ a[3] = 0
             /\ \A i \in 5..8 :
                  (i > Len(cols) \/ cols[i] = <<>>) => a[i + 1] = Real(0, 1)
             /\ \A i \in 5..8 :
                  (i <= Len(cols) /\ cols[i] # <<>>) => a[i + 1] = ParseF64(cols[i]).val

====
